---- MODULE Spec2Model ----
(***************************************************************************)
(* A model of src/src/models/globes.js: the input controller's gesture     *)
(* state machine (buildInputController), the view clamping of projection   *)
(* bounds (clampedBounds), the field interpolation engine                  *)
(* (interpolateField / createField), the registry of globe variants        *)
(* (buildGlobe) and the orientation string of a globe                      *)
(* (standardGlobe.orientation).                                            *)
(*                                                                         *)
(* The specifications share the variables:                                 *)
(*   Spec            the input controller: the zoomstart / zoom / zoomend  *)
(*                   handlers and the debounced signalEnd callback;        *)
(*   SpecFair        Spec with a debounce timer that fires;                *)
(*   SpecReorient    Spec with reorient, the controller's answer to a      *)
(*                   change of the stored orientation;                     *)
(*   SpecBounds      clampedBounds applied to views and bounding boxes;    *)
(*   SpecField       one interpolation run, then release() of the Field;   *)
(*   SpecFieldFair   SpecField with a loop that runs on and timers that    *)
(*                   fire;                                                 *)
(*   SpecRandomize   SpecField with the calls of randomize();              *)
(*   SpecRegistry    calls of buildGlobe;                                  *)
(*   SpecOrientation the getter and the setter of the orientation string.  *)
(* Each specification leaves the variables of the others at their initial  *)
(* values.                                                                 *)
(*                                                                         *)
(* d3 and underscore are libraries; what the model takes from them is the  *)
(* documented behaviour of the calls the source makes (the zoom behaviour  *)
(* delivers zoomend only to an interaction it started; debounce runs its   *)
(* callback once the wait has passed since the last call; random(a, b) is  *)
(* an integer of a..b; a projection keeps its angles % 360).  Both places  *)
(* that make an operation give it the start scale 1 (d3.zoomIdentity.k,    *)
(* and the literal 1 of the zoom handler), so the scale of an event        *)
(* "equals the start scale" when it is 1.  The utils module is not among   *)
(* the sources: utils.distance is taken to be the Euclidean distance,      *)
(* utils.clamp(x, low, high) to be max(low, min(high, x)) and              *)
(* utils.floorMod the remainder of the floored division.                   *)
(***************************************************************************)
EXTENDS Integers, Naturals, Sequences, FiniteSets, TLC

VARIABLES
    \* ---- input controller (buildInputController) ----
    op,         \* the operation in progress, NoOp when `op` is null
    rotate,     \* projection.rotate()[0..1], degrees
    scale,      \* projection.scale()
    precision,  \* projection.precision(), in units of 0.1
    timer,      \* TRUE while the debounced signalEnd has a timeout pending
    emitted,    \* the events and saves issued by the handler that ran last
    last,       \* the handler that ran last
    hist,       \* history of the interaction in progress (or just released)
    relType,    \* op.type when zoomend last ran, "null" once a new
                \* operation has been made
    sessions,   \* manipulators made by globe.manipulator and not yet ended
    translate,  \* projection.translate(), pixels
    zoomK,      \* the scale reorient last gave the zoom behaviour
    opg,        \* more history of the operation in progress (or just
                \* released): the scale of its last zoom event, the rotation
                \* the globe had when it became 'zoom', the 'moveStart'
                \* and 'move' events it has emitted, and whether a firing
                \* of signalEnd found it 'drag' or 'zoom'
    notice,     \* the declared source of the notification reorient ran
                \* for, when reorient is the handler that ran last
    \* ---- clampedBounds ----
    bview,      \* the view {width, height} given to clampedBounds
    bbox,       \* the projection bounding box, in half pixels or non-finite
    bres,       \* the object clampedBounds returned
    bpc,        \* "idle" | "done"
    \* ---- interpolateField / createField ----
    fpc,        \* position of the run
    fx,         \* the column cursor `x`
    visible,    \* the pixels the mask marked visible when it was built
    alpha,      \* the alpha channel of the mask's RGBA buffer, per pixel
    columns,    \* the `columns` array: x -> column, a column: y -> vector
    fbounds,    \* `bounds` of the run
    released,   \* release() calls so far (capped), and whether the
                \* columns held a wind vector when the first one began
    rnd,        \* the state of the randomize() call in progress
    cancel,     \* cancel.requested of the run
    slices,     \* the invocations of batchInterpolate so far
    trace,      \* the columns given to interpolateColumn so far, in order
    \* ---- buildGlobe ----
    built,      \* the calls of buildGlobe so far, each with its outcome
    \* ---- standardGlobe.orientation ----
    og,         \* the projection of a globe: rotate, scale and translate,
                \* in thousandths of a degree and of a pixel
    ost         \* the orientation call that ran last: its kind, the string
                \* it read or was given, the view, the projection before it

gvars == <<op, rotate, scale, precision, timer, emitted, last, hist, relType,
          sessions, translate, zoomK, notice, opg>>
bvars == <<bview, bbox, bres, bpc>>
fvars == <<fpc, fx, visible, alpha, columns, fbounds, released, rnd,
          cancel, slices, trace>>
rvars == <<built>>
ovars == <<og, ost>>
vars  == <<gvars, bvars, fvars, rvars, ovars>>

----------------------------------------------------------------------------
(* Program constants.                                                      *)

MIN_MOVE == 4
ZoomIdentityK == 1
DefaultPrecision == 1

(* Bounds of the model.                                                    *)

MaxMouse == 4
MaxScale == 2

----------------------------------------------------------------------------
(* The input controller.                                                   *)

\* Pointer positions d3.pointer(this) can report: a row of pixels, and
\* <<3, 3>>, which is 4 px or more away from <<0, 0>> while each of its
\* coordinates differs by less than 4.
Pointers == {<<x, 0>> : x \in 0..MaxMouse} \cup {<<3, 3>>}

\* The scales a zoom event can carry; ZoomIdentityK is among them.
Scales == 1..MaxScale

\* a % n as JavaScript computes it: the sign of the dividend is kept.
JsRem(a, n) == IF a >= 0 THEN a % n ELSE -((-a) % n)

\* utils.distance(a, b), squared (the Euclidean distance of two points).
DistanceSq(a, b) ==
    (a[1] - b[1]) * (a[1] - b[1]) + (a[2] - b[2]) * (a[2] - b[2])

\* `op = null`
NoOp == [type |-> "null", startMouse |-> <<0, 0>>, startScale |-> 0,
         rotation |-> <<0, 0>>, original |-> 0]

Event(name) == [name |-> name, arg |-> <<>>, coord |-> <<>>, src |-> ""]

\* configuration.save({orientation: o}, {source: src})
SaveEvent(o, source) == [name |-> "save", arg |-> o, coord |-> <<>>, src |-> source]

\* globe.orientation() with no argument: "lat,lon,scale" of the current
\* projection, here the triple of its parts.  The angles of the model are
\* whole degrees and the scales whole numbers, which toFixed(2) and
\* Math.round keep.
orientation(rot, sc) == <<-rot[1], -rot[2], sc>>

\* globe.manipulator(startMouse, startScale): the session's captured state.
\* sensitivity = 60 / startScale; `rotation` holds the start rotation,
\* kept here multiplied by the sensitivity (degrees).
sensitivity(startScale) == 60 \div startScale

\* newOp(startMouse, startScale)
\* a handler that makes an operation whatever `op` holds
startsOpAlways(o) == TRUE

\* op = op || newOp(...), lines 573 and 578: newOp runs, and with it
\* globe.manipulator, when no operation is in progress
startsOp(o) == o = NoOp

\* a manipulator whose end() leaves the raised precision in place
endPrecisionRaised(o) == o.original * 10

\* manipulator.end(), lines 170-172: the precision it restores
endPrecision(o) == o.original

newOp(startMouse, startScale) ==
    [type |-> "click", startMouse |-> startMouse, startScale |-> startScale,
     rotation |-> <<rotate[1], -rotate[2]>>, original |-> precision]

\* manipulator.move(mouse, scale): the rotation it leaves.  `mouse` is
\* <<>> for null.  projection.rotate(_) keeps each angle % 360.
moveRotate(o, mouse) ==
    IF mouse = <<>> THEN rotate
    ELSE LET s  == sensitivity(o.startScale)
             xd == (mouse[1] - o.startMouse[1]) * s + o.rotation[1]
             yd == (mouse[2] - o.startMouse[2]) * s + o.rotation[2]
         IN  <<JsRem(xd, 360), JsRem(-yd, 360)>>

\* line 581: the pointer has barely moved and no zoom is occurring
barelyMovedLax(currentScale, startScale, dsq) ==
    currentScale = startScale /\ dsq <= MIN_MOVE * MIN_MOVE

barelyMoved(currentScale, startScale, dsq) ==
    currentScale = startScale /\ dsq < MIN_MOVE * MIN_MOVE

\* line 583: op.type = distanceMoved > 0 ? 'click' : 'spurious'
slackTypeAlwaysClick(dsq) == "click"

slackType(dsq) == IF dsq > 0 THEN "click" ELSE "spurious"

\* lines 589-591: whenever a scale change is detected, switch to zoom
zoomTypeUnsticky(type, currentScale, startScale) ==
    IF currentScale # startScale THEN "zoom" ELSE "drag"

zoomType(type, currentScale, startScale) ==
    IF currentScale # startScale THEN "zoom" ELSE type

\* dispatch.trigger('click', mouse, coord)
ClickEvent(mouse, coord) ==
    [name |-> "click", arg |-> mouse, coord |-> coord, src |-> ""]

\* lines 599-603: what zoomend issues for an operation of the given type.
\* `coord` is globe.projection.invert(op.startMouse) || [].
releaseEventsClickAlways(type, startMouse, coord) ==
    IF type # "drag" /\ type # "zoom"
    THEN <<ClickEvent(startMouse, coord)>>
    ELSE <<>>

releaseEvents(type, startMouse, coord) ==
    IF type = "click" THEN <<ClickEvent(startMouse, coord)>> ELSE <<>>

\* zoomend never calling signalEnd
callsSignalEndNever(type) == FALSE

\* lines 601-602: zoomend calls signalEnd()
callsSignalEnd(type) == type # "click" /\ type # "spurious"

\* line 608: the debounced callback persists and emits
moveEndedAlways(o) == TRUE

moveEnded(o) == o = NoOp \/ (o.type # "drag" /\ o.type # "zoom")

\* History of one interaction: whether a zoom event was handled, whether
\* some zoom event carried a scale other than the start scale, whether some
\* zoom event's pointer was MIN_MOVE or more away from the start pointer,
\* whether some zoom event's pointer differed from the start pointer, and
\* whether the last one did.
NoHist == [zoomed |-> FALSE, scaleDiff |-> FALSE, far |-> FALSE,
           moved |-> FALSE, lastMoved |-> FALSE]

\* the history after one more zoom event of the operation o
histAfter(h, o, mouse, sc) ==
    LET dsq == DistanceSq(mouse, o.startMouse)
    IN  [zoomed    |-> TRUE,
         scaleDiff |-> h.scaleDiff \/ sc # o.startScale,
         far       |-> h.far \/ dsq >= MIN_MOVE * MIN_MOVE,
         moved     |-> h.moved \/ dsq > 0,
         lastMoved |-> dsq > 0]

\* no zoom event yet, the operation not yet 'zoom', nothing emitted, no
\* firing of signalEnd held back
NoOpg == [evScale |-> 0, zoomRotate |-> <<>>, starts |-> 0, moves |-> 0,
          held |-> FALSE]

\* a manipulator that is always given the pointer
moveMouseAlways(type, mouse) == mouse

\* line 594: op.type === 'zoom' ? null : currentMouse
moveMouse(type, mouse) == IF type = "zoom" THEN <<>> ELSE mouse

\* a handler that triggers 'moveStart' before every 'move'
startEventsAlways(slack) == <<Event("moveStart")>>

\* line 586: dispatch.trigger('moveStart'), reached when the operation was
\* 'click' or 'spurious' and the event is not ignored
startEvents(slack) == IF slack THEN <<Event("moveStart")>> ELSE <<>>

GInit ==
    /\ op = NoOp
    /\ rotate = <<0, 0>>
    /\ scale \in Scales
    /\ precision = DefaultPrecision
    /\ timer = FALSE
    /\ emitted = <<>>
    /\ last = "init"
    /\ hist = NoHist
    /\ relType = "null"
    /\ sessions = 0
    /\ translate = <<480, 250>>
    /\ zoomK = ZoomIdentityK
    /\ notice = "none"
    /\ opg = NoOpg

\* .on('zoomstart', ...), lines 572-574.  globe.manipulator raises the
\* precision tenfold when a new operation is made.
ZoomStart ==
    \E mouse \in Pointers :
        /\ op' = IF startsOp(op) THEN newOp(mouse, ZoomIdentityK) ELSE op
        /\ precision' = IF startsOp(op) THEN precision * 10 ELSE precision
        /\ sessions' = IF startsOp(op) THEN sessions + 1 ELSE sessions
        /\ hist' = IF startsOp(op) THEN NoHist ELSE hist
        /\ opg' = IF startsOp(op) THEN NoOpg ELSE opg
        /\ relType' = IF startsOp(op) THEN "null" ELSE relType
        /\ emitted' = <<>>
        /\ last' = "zoomstart"
        /\ notice' = "none"
        /\ UNCHANGED <<rotate, scale, timer, translate, zoomK>>
        /\ UNCHANGED <<bvars, fvars, rvars, ovars>>

\* .on('zoom', ...), lines 575-596
Zoom ==
    \E currentMouse \in Pointers, currentScale \in Scales :
        LET o0  == IF startsOp(op) THEN newOp(currentMouse, 1) ELSE op
            p0  == IF startsOp(op) THEN precision * 10 ELSE precision
            h0  == IF startsOp(op) THEN NoHist ELSE hist
            g0  == IF startsOp(op) THEN NoOpg ELSE opg
            dsq == DistanceSq(currentMouse, o0.startMouse)
            slack == o0.type \in {"click", "spurious"}
        IN  /\ precision' = p0
            /\ sessions' = IF startsOp(op) THEN sessions + 1 ELSE sessions
            /\ last' = "zoom"
            /\ notice' = "none"
            /\ relType' = IF startsOp(op) THEN "null" ELSE relType
            /\ UNCHANGED <<timer, translate, zoomK>>
            /\ UNCHANGED <<bvars, fvars, rvars, ovars>>
            /\ IF slack /\ barelyMoved(currentScale, o0.startScale, dsq)
               THEN /\ op' = [o0 EXCEPT !.type = slackType(dsq)]
                    /\ hist' = histAfter(h0, o0, currentMouse, currentScale)
                    /\ opg' = [g0 EXCEPT !.evScale = currentScale]
                    /\ emitted' = <<>>
                    /\ UNCHANGED <<rotate, scale>>
               ELSE LET t1 == IF slack THEN "drag" ELSE o0.type
                        t2 == zoomType(t1, currentScale, o0.startScale)
                    IN  /\ op' = [o0 EXCEPT !.type = t2]
                        /\ hist' = histAfter(h0, o0, currentMouse, currentScale)
                        /\ rotate' = moveRotate(o0, moveMouse(t2, currentMouse))
                        /\ scale' = currentScale
                        /\ emitted' = startEvents(slack) \o <<Event("move")>>
                        /\ opg' = [evScale |-> currentScale,
                                   zoomRotate |->
                                       IF t2 = "zoom" /\ o0.type # "zoom"
                                       THEN rotate' ELSE g0.zoomRotate,
                                   starts |-> g0.starts + Len(startEvents(slack)),
                                   moves |-> IF g0.moves = 0 THEN 1 ELSE g0.moves,
                                   held |-> g0.held]

\* .on('zoomend', ...), lines 597-605.  With no operation in progress the
\* handler throws at op.manipulator and changes nothing.
ZoomEnd ==
    /\ op # NoOp
    /\ \E coord \in {<<>>, op.startMouse} :
          emitted' = releaseEvents(op.type, op.startMouse, coord)
    /\ timer' = IF callsSignalEnd(op.type) THEN TRUE ELSE timer
    /\ precision' = endPrecision(op)
    /\ sessions' = sessions - 1
    /\ relType' = op.type
    /\ op' = NoOp
    /\ last' = "zoomend"
    /\ notice' = "none"
    /\ UNCHANGED <<rotate, scale, hist, translate, zoomK, opg>>
    /\ UNCHANGED <<bvars, fvars, rvars, ovars>>

\* the callback of signalEnd, lines 607-612, run when the MOVE_END_WAIT
\* quiet period has passed since the last call of signalEnd
SignalEndFire ==
    /\ timer
    /\ timer' = FALSE
    /\ emitted' = IF moveEnded(op)
                  THEN <<SaveEvent(orientation(rotate, scale), "moveEnd"),
                         Event("moveEnd")>>
                  ELSE <<>>
    /\ opg' = IF moveEnded(op) THEN opg ELSE [opg EXCEPT !.held = TRUE]
    /\ last' = "signalEnd"
    /\ notice' = "none"
    /\ UNCHANGED <<op, rotate, scale, precision, hist, relType, sessions,
                   translate, zoomK>>
    /\ UNCHANGED <<bvars, fvars, rvars, ovars>>

----------------------------------------------------------------------------
(* clampedBounds.                                                          *)
(* A JavaScript number is a record: [k |-> "num", v |-> n] for a finite    *)
(* number, and k = "Infinity", "-Infinity", "NaN" or "undefined" (v = 0)   *)
(* otherwise.  The components of a bounding box are counted in half        *)
(* pixels, so that Math.floor and Math.ceil differ on them; everything     *)
(* past Math.floor / Math.ceil is counted in pixels.                       *)

MaxView == 2

Num(n) == [k |-> "num", v |-> n]
PosInf == [k |-> "Infinity", v |-> 0]
NegInf == [k |-> "-Infinity", v |-> 0]
NaN == [k |-> "NaN", v |-> 0]
Undefined == [k |-> "undefined", v |-> 0]

\* the views: {width, height} with width, height >= 1
Views == (1..MaxView) \X (1..MaxView)

\* the components a projection bounding box may hold, in half pixels: from
\* one pixel before the largest view to one pixel past it
BoxComponents ==
    {Num(h) : h \in (0 - 2)..(2 * MaxView + 2)}
        \cup {PosInf, NegInf, NaN, Undefined}

\* an ensureNumber that lets only finite numbers through
ensureNumberFinite(num, fallback) ==
    IF num.k = "num" THEN num ELSE fallback

\* ensureNumber(num, fallback), lines 41-43: isFinite(num), or one of the
\* two infinities, keeps num
ensureNumber(num, fallback) ==
    IF num.k \in {"num", "Infinity", "-Infinity"} THEN num ELSE fallback

\* Math.floor and Math.ceil of a number given in half pixels
MathFloor(a) == IF a.k = "num" THEN Num(a.v \div 2) ELSE a
MathCeil(a) == IF a.k = "num" THEN Num(0 - ((0 - a.v) \div 2)) ELSE a

\* Math.max and Math.min of a number that is not NaN and a finite n
MathMax(a, n) ==
    CASE a.k = "num" -> Num(IF a.v > n THEN a.v ELSE n)
      [] a.k = "Infinity" -> PosInf
      [] OTHER -> Num(n)

MathMin(a, n) ==
    CASE a.k = "num" -> Num(IF a.v < n THEN a.v ELSE n)
      [] a.k = "-Infinity" -> NegInf
      [] OTHER -> Num(n)

\* hi - lo + 1, for hi finite or -Infinity and lo finite or +Infinity
Extent(hi, lo) ==
    IF hi.k = "num" /\ lo.k = "num" THEN Num(hi.v - lo.v + 1) ELSE NegInf

\* clampedBounds(bounds, view), lines 50-58.  The fallbacks view.width and
\* view.height are given to Math.ceil in half pixels, like the box.
clampedBounds(bounds, view) ==
    LET x    == MathMax(MathFloor(ensureNumber(bounds[1], Num(0))), 0)
        y    == MathMax(MathFloor(ensureNumber(bounds[2], Num(0))), 0)
        xMax == MathMin(MathCeil(ensureNumber(bounds[3], Num(2 * view[1]))),
                        view[1] - 1)
        yMax == MathMin(MathCeil(ensureNumber(bounds[4], Num(2 * view[2]))),
                        view[2] - 1)
    IN  [x |-> x, y |-> y, xMax |-> xMax, yMax |-> yMax,
         width |-> Extent(xMax, x), height |-> Extent(yMax, y)]

NoBounds == [x |-> Num(0), y |-> Num(0), xMax |-> Num(0), yMax |-> Num(0),
             width |-> Num(0), height |-> Num(0)]

BInit ==
    /\ bview = <<1, 1>>
    /\ bbox = <<Num(0), Num(0), Num(0), Num(0)>>
    /\ bres = NoBounds
    /\ bpc = "idle"

\* standardGlobe.bounds(view), lines 84-86: clampedBounds of the bounding
\* box <<x0, y0, x1, y1>> that geoPath reports for the sphere
Bounds ==
    /\ bpc = "idle"
    /\ \E view \in Views, x0 \in BoxComponents, y0 \in BoxComponents,
          x1 \in BoxComponents, y1 \in BoxComponents :
        /\ bview' = view
        /\ bbox' = <<x0, y0, x1, y1>>
        /\ bres' = clampedBounds(bbox', view)
        /\ bpc' = "done"
    /\ UNCHANGED <<gvars, fvars, rvars, ovars>>

----------------------------------------------------------------------------
(* interpolateField and createField.                                       *)
(* Pixels are pairs <<x, y>> of the view, 0 <= x < ViewWidth and           *)
(* 0 <= y < ViewHeight.  A vector of the field is "WIND" (a vector that    *)
(* grid.interpolate returned), "HOLE" (HOLE_VECTOR), "NULL"                *)
(* (NULL_WIND_VECTOR) or "U" (an array entry never written: undefined).    *)

ViewWidth == 4
ViewHeight == 2
OVERLAY_ALPHA == 102
OpaqueAlpha == 255
SafetyNetLimit == 30

Pixels == (0..(ViewWidth - 1)) \X (0..(ViewHeight - 1))

\* createMask, lines 405-416: the index of pixel (x, y) in the alpha
\* channel of the flat RGBA array (1-based here)
maskIndex(x, y) == y * ViewWidth + x + 1

\* mask.isVisible(x, y), lines 405-408; a read past the array is undefined,
\* and undefined > 0 is false
isVisible(a, x, y) ==
    /\ maskIndex(x, y) \in 1..Len(a)
    /\ a[maskIndex(x, y)] > 0

\* the pixels context.fill() reaches for a sphere outline that fills its
\* bounding box, box = <<x0, y0, x1, y1>> in half pixels: every pixel the
\* box covers in part
filledPixels(box) ==
    {p \in Pixels : /\ 2 * p[1] < box[3].v /\ 2 * p[1] + 2 > box[1].v
                    /\ 2 * p[2] < box[4].v /\ 2 * p[2] + 2 > box[2].v}

\* the corner pixels of a set of pixels that spans two rows and two columns
\* or more, which a rounded outline leaves out
corners(ps) ==
    LET xs == {p[1] : p \in ps}
        ys == {p[2] : p \in ps}
    IN  IF Cardinality(xs) < 2 \/ Cardinality(ys) < 2 THEN {}
        ELSE {p \in ps :
                /\ ((\A x \in xs : x <= p[1]) \/ (\A x \in xs : x >= p[1]))
                /\ ((\A y \in ys : y <= p[2]) \/ (\A y \in ys : y >= p[2]))}

\* the silhouettes the mask may hold for an outline of bounding box `box`:
\* the filled box, or the filled box less one corner pixel
silhouettes(box) ==
    {filledPixels(box)} \cup {filledPixels(box) \ {c} : c \in corners(filledPixels(box))}

\* the bounding boxes of sphere outlines that overlap the view
FieldBoxes ==
    {b \in ({Num(h) : h \in (0 - 1)..(2 * ViewWidth + 1)}
               \X {Num(h) : h \in (0 - 1)..(2 * ViewHeight + 1)}
               \X {Num(h) : h \in (0 - 1)..(2 * ViewWidth + 1)}
               \X {Num(h) : h \in (0 - 1)..(2 * ViewHeight + 1)}) :
        /\ b[1].v < b[3].v /\ b[2].v < b[4].v
        /\ b[1].v < 2 * ViewWidth /\ b[3].v > 0
        /\ b[2].v < 2 * ViewHeight /\ b[4].v > 0}

\* `columns = []`
EmptyColumns == [i \in 1..ViewWidth |-> <<>>]

\* what one visible sample pixel yields, lines 498-519: the vector written
\* (wind || HOLE_VECTOR) and the alpha of the colour written: the gradient
\* of the scalar when there is one, TRANSPARENT_BLACK otherwise.  With an
\* overlay grid distinct from the primary grid the scalar is sampled apart
\* from the wind, so each vector goes with each colour.
SampleOutcomes == [vec : {"HOLE", "WIND"}, a : {0, OVERLAY_ALPHA}]

\* the rows interpolateColumn samples, line 494
sampleRows(b) == {y \in b.y..b.yMax : (y - b.y) % 2 = 0}

\* interpolateColumn(x), lines 492-526: the column array it builds, as the
\* sequence of column[0..ViewHeight]; out gives the outcome of each row
columnOf(a, b, x, out) ==
    [i \in 1..(ViewHeight + 1) |->
        IF \E y \in sampleRows(b) : isVisible(a, x, y) /\ (i - 1) \in {y, y + 1}
        THEN out[CHOOSE y \in sampleRows(b) :
                    isVisible(a, x, y) /\ (i - 1) \in {y, y + 1}].vec
        ELSE "U"]

\* interpolateColumn(x), lines 520-524: the alpha channel after the four
\* mask.set calls of every visible sample; a write past the array is dropped
maskAfter(a, b, x, out) ==
    [i \in 1..Len(a) |->
        IF \E y \in sampleRows(b) :
              /\ isVisible(a, x, y)
              /\ i \in {maskIndex(x, y), maskIndex(x + 1, y),
                         maskIndex(x, y + 1), maskIndex(x + 1, y + 1)}
        THEN out[CHOOSE y \in sampleRows(b) :
                    /\ isVisible(a, x, y)
                    /\ i \in {maskIndex(x, y), maskIndex(x + 1, y),
                               maskIndex(x, y + 1), maskIndex(x + 1, y + 1)}].a
        ELSE a[i]]

\* line 527: columns[x + 1] = columns[x] = column
columnsAfter(cols, x, column) ==
    [i \in 1..(IF x + 2 > Len(cols) THEN x + 2 ELSE Len(cols)) |->
        IF i \in {x + 1, x + 2} THEN column
        ELSE IF i <= Len(cols) THEN cols[i] ELSE <<>>]

\* Math.round of a number given in half pixels
MathRound(h) == (h + 1) \div 2

\* field(x, y), lines 425-428, for x and y in half pixels:
\* (column && column[Math.round(y)]) || NULL_WIND_VECTOR
field(cols, hx, hy) ==
    LET cx == MathRound(hx)
        cy == MathRound(hy)
        column == IF cx + 1 \in 1..Len(cols) THEN cols[cx + 1] ELSE <<>>
        v == IF cy + 1 \in 1..Len(column) THEN column[cy + 1] ELSE "U"
    IN  IF v = "U" THEN "NULL" ELSE v

\* field.isDefined(x, y), lines 433-435: field(x, y)[2] !== null
isDefined(cols, hx, hy) == field(cols, hx, hy) = "WIND"

\* field.isInsideBoundary(x, y), lines 442-444
isInsideBoundary(cols, hx, hy) == field(cols, hx, hy) # "NULL"

\* field.release, lines 448-450
releaseKeeps(cols) == cols

release(cols) == EmptyColumns

\* no randomize() call yet.  Of a call: pc is "loop" inside the do-while
\* and "returned" after it; x, y the point sampled last; safetyNet the
\* counter; samples the number of points sampled so far; defined and
\* inside what isDefined and isInsideBoundary gave for (x, y) then.
NoRandomize == [pc |-> "idle", x |-> 0, y |-> 0, safetyNet |-> 0, samples |-> 0,
                defined |-> FALSE, inside |-> FALSE]

\* the pixel coordinates a caller may look up, in half pixels: in and
\* around the view, pixel centres and points between them
Probes == ((0 - 2)..(2 * ViewWidth + 2)) \X ((0 - 2)..(2 * ViewHeight + 2))

MaxReleases == 2

FInit ==
    /\ fpc = "idle"
    /\ fx = 0
    /\ visible = {}
    /\ alpha = [i \in 1..(ViewWidth * ViewHeight) |-> 0]
    /\ columns = EmptyColumns
    /\ fbounds = [x |-> 0, y |-> 0, xMax |-> 0, yMax |-> 0, width |-> 1, height |-> 1]
    /\ released = [n |-> 0, hadWind |-> FALSE]
    /\ rnd = NoRandomize
    /\ cancel = FALSE
    /\ slices = 0
    /\ trace = <<>>

\* interpolateField(globe, grids), lines 470-490 and 530-534: the mask is
\* built, the bounds are taken, and the first slice begins
Interpolate ==
    /\ fpc = "idle"
    /\ \E box \in FieldBoxes :
          LET b == clampedBounds(box, <<ViewWidth, ViewHeight>>)
          IN  /\ visible' \in silhouettes(box)
              /\ alpha' = [i \in 1..(ViewWidth * ViewHeight) |->
                              IF \E p \in visible' : maskIndex(p[1], p[2]) = i
                              THEN OpaqueAlpha ELSE 0]
              /\ fbounds' = [x |-> b.x.v, y |-> b.y.v, xMax |-> b.xMax.v,
                             yMax |-> b.yMax.v, width |-> b.width.v,
                             height |-> b.height.v]
              /\ fx' = b.x.v
    /\ columns' = EmptyColumns
    /\ fpc' = "slice"
    /\ slices' = 1
    /\ trace' = <<>>
    /\ UNCHANGED <<released, rnd, cancel>>
    /\ UNCHANGED <<gvars, bvars, rvars, ovars>>

\* batchInterpolate, lines 535-542: one turn of the while loop; when the
\* time budget is used up the next slice is scheduled and this one returns
Column ==
    /\ fpc = "slice"
    /\ fx < fbounds.xMax
    /\ \E out \in [sampleRows(fbounds) -> SampleOutcomes] :
          /\ columns' = columnsAfter(columns, fx, columnOf(alpha, fbounds, fx, out))
          /\ alpha' = maskAfter(alpha, fbounds, fx, out)
    /\ fx' = fx + 2
    /\ trace' = Append(trace, fx)
    /\ \E timeUp \in BOOLEAN : fpc' = IF timeUp THEN "sleeping" ELSE "slice"
    /\ UNCHANGED <<visible, fbounds, released, rnd, cancel, slices>>
    /\ UNCHANGED <<gvars, bvars, rvars, ovars>>

\* a yield that schedules nothing
timerNever(pc) == FALSE

\* the timeout of setTimeout(batchInterpolate, MIN_SLEEP_TIME), line 540,
\* is pending
timerPending(pc) == pc = "sleeping"

\* the cursor of a slice that begins again at bounds.x
resumeCursorRestart(x, b) == b.x

\* the cursor `x` of line 486 is shared by all slices: a slice goes on
\* where the one before it stopped
resumeCursor(x, b) == x

\* the columns the while loop of line 535 has to interpolate
columnCount(b) == IF b.x < b.xMax THEN (b.xMax - b.x + 1) \div 2 ELSE 0

\* setTimeout(batchInterpolate, MIN_SLEEP_TIME) fires, line 540
Resume ==
    /\ timerPending(fpc)
    /\ fpc' = "slice"
    /\ slices' = slices + 1
    /\ fx' = resumeCursor(fx, fbounds)
    /\ UNCHANGED <<visible, alpha, columns, fbounds, released, rnd,
                   cancel, trace>>
    /\ UNCHANGED <<gvars, bvars, rvars, ovars>>

\* batchInterpolate, line 545: resolve(createField(columns, bounds, mask))
Resolve ==
    /\ fpc = "slice"
    /\ ~(fx < fbounds.xMax)
    /\ fpc' = "done"
    /\ UNCHANGED <<fx, visible, alpha, columns, fbounds, released, rnd,
                   cancel, slices, trace>>
    /\ UNCHANGED <<gvars, bvars, rvars, ovars>>

\* batchInterpolate, lines 532-548: interpolateColumn throws at a visible
\* sample of the column (in a grid's interpolate, in distort or in the
\* gradient), after the samples above it were written to the mask, and the
\* catch rejects the promise
Throw ==
    /\ fpc = "slice"
    /\ fx < fbounds.xMax
    /\ \E out \in [sampleRows(fbounds) -> SampleOutcomes],
          yThrow \in sampleRows(fbounds) :
          /\ isVisible(alpha, fx, yThrow)
          /\ alpha' = maskAfter(alpha, [fbounds EXCEPT !.yMax = yThrow - 1],
                                fx, out)
    /\ fpc' = "rejected"
    /\ UNCHANGED <<fx, visible, columns, fbounds, released, rnd, cancel,
                   slices, trace>>
    /\ UNCHANGED <<gvars, bvars, rvars, ovars>>

\* the owner of the run sets cancel.requested (line 478) while the run
\* is between two slices
RequestCancel ==
    /\ fpc = "sleeping"
    /\ ~cancel
    /\ cancel' = TRUE
    /\ UNCHANGED <<fpc, fx, visible, alpha, columns, fbounds, released, rnd,
                   slices, trace>>
    /\ UNCHANGED <<gvars, bvars, rvars, ovars>>

\* field.release(), lines 448-450
Release ==
    /\ fpc = "done"
    /\ rnd.pc # "loop"
    /\ released.n < MaxReleases
    /\ columns' = release(columns)
    /\ released' = [n |-> released.n + 1,
                    hadWind |-> IF released.n = 0
                                THEN \E q \in Probes : isDefined(columns, q[1], q[2])
                                ELSE released.hadWind]
    /\ UNCHANGED <<fpc, fx, visible, alpha, fbounds, rnd, cancel, slices,
                   trace>>
    /\ UNCHANGED <<gvars, bvars, rvars, ovars>>

\* field.randomize(o), lines 452-463: one turn of the do-while loop.  A
\* call begins with safetyNet = 0; random(a, b) is an integer of a..b.
Randomize ==
    /\ fpc = "done"
    /\ \E x \in fbounds.x..fbounds.xMax, y \in fbounds.y..fbounds.yMax :
          LET n == IF rnd.pc = "loop" THEN rnd.safetyNet ELSE 0
              k == IF rnd.pc = "loop" THEN rnd.samples ELSE 0
              undef == ~isDefined(columns, 2 * x, 2 * y)
          IN  rnd' = [pc |-> IF undef /\ n < SafetyNetLimit THEN "loop"
                             ELSE "returned",
                      x |-> x, y |-> y,
                      safetyNet |-> IF undef THEN n + 1 ELSE n,
                      samples |-> k + 1,
                      defined |-> ~undef,
                      inside |-> isInsideBoundary(columns, 2 * x, 2 * y)]
    /\ UNCHANGED <<fpc, fx, visible, alpha, columns, fbounds, released,
                   cancel, slices, trace>>
    /\ UNCHANGED <<gvars, bvars, rvars, ovars>>

-----------------------------------------------------------------------------
(* The registry of globe variants and buildGlobe, lines 216-365.           *)

MaxCalls == 2

\* the keys of the `globes` Map, lines 348-357
ProjectionNames ==
    {"atlantis", "azimuthal_equidistant", "conic_equidistant",
     "equirectangular", "orthographic", "stereographic", "waterman",
     "winkel3"}

\* names the Map has no entry for
UnknownNames == {"mercator", ""}

\* new Date().getTimezoneOffset(), minutes
TimezoneOffsets == {0 - 60, 0, 300}

\* utils.floorMod(a, n): the remainder of the floored division
floorMod(a, n) == a % n

\* currentPosition(), lines 36-39
currentPosition(offset) == <<floorMod(offset \div 4, 360), 0>>

\* utils.view(), line 31: the view of the page
PageView == <<ViewWidth, ViewHeight>>

NoExtent == <<>>

\* newProjection of each variant, lines 224-346: the rotation, the
\* precision in units of 0.1 and the clip extent the builder configures
\* (a projection of d3 starts with the rotation [0, 0])
newProjection(name, view, offset) ==
    CASE name = "atlantis" ->
           [rotate |-> <<30, 0 - 45>>, precision |-> 1, clipExtent |-> NoExtent]
      [] name = "azimuthal_equidistant" ->
           [rotate |-> <<0, 0 - 90>>, precision |-> 1, clipExtent |-> NoExtent]
      [] name \in {"conic_equidistant", "equirectangular", "orthographic"} ->
           [rotate |-> currentPosition(offset), precision |-> 1,
            clipExtent |-> NoExtent]
      [] name = "stereographic" ->
           [rotate |-> <<0 - 43, 0 - 20>>, precision |-> 10,
            clipExtent |-> <<0, 0, view[1], view[2]>>]
      [] name = "waterman" ->
           [rotate |-> <<20, 0>>, precision |-> 1, clipExtent |-> NoExtent]
      [] OTHER ->
           [rotate |-> <<0, 0>>, precision |-> 1, clipExtent |-> NoExtent]

NoProjection ==
    [rotate |-> <<0, 0>>, precision |-> 0, clipExtent |-> NoExtent]

\* no Globe: the value of `made` when no builder ran
NoGlobe == [variant |-> "none", projection |-> NoProjection]

\* newGlobe(source, view), lines 216-220: the standard globe extended by
\* the variant, its projection built by the variant's newProjection
newGlobe(name, view, offset) ==
    [variant |-> name, projection |-> newProjection(name, view, offset)]

\* new Promise(executor): the constructor throws a TypeError when its
\* argument is not a function, and a Globe is a plain object
newPromise(executor) ==
    IF executor.variant = "function"
    THEN [kind |-> "promise", value |-> NoGlobe, error |-> ""]
    ELSE [kind |-> "throws", value |-> NoGlobe, error |-> "TypeError"]

\* Promise.reject(reason)
PromiseReject(reason) ==
    [kind |-> "rejected", value |-> NoGlobe, error |-> reason]

\* buildGlobe(projectionName), lines 359-365: the outcome of the call and
\* the Globe the builder made on the way
buildGlobe(projectionName, offset) ==
    IF projectionName \notin ProjectionNames
    THEN [name |-> projectionName,
          outcome |-> PromiseReject("Unknown projection"),
          made |-> NoGlobe]
    ELSE LET globe == newGlobe(projectionName, PageView, offset)
         IN  [name |-> projectionName,
              outcome |-> newPromise(globe),
              made |-> globe]

RInit == built = <<>>

\* one call of buildGlobe
BuildGlobe ==
    /\ Len(built) < MaxCalls
    /\ \E name \in ProjectionNames \cup UnknownNames,
          offset \in TimezoneOffsets :
          built' = Append(built, buildGlobe(name, offset))
    /\ UNCHANGED <<gvars, bvars, fvars, ovars>>

-----------------------------------------------------------------------------
(* standardGlobe.orientation, lines 122-145, with fit, center and          *)
(* scaleExtent, lines 92-113, for the orthographic globe.  Numbers of the  *)
(* projection are integers in thousandths (of a degree, of a pixel); the   *)
(* decimal parts of an orientation string are in hundredths.               *)

MaxMilli == 6

Milli == 1000

FullTurn == 360 * Milli

\* scaleExtent(), lines 111-113
scaleExtent == <<25 * Milli, 3000 * Milli>>

Abs(n) == IF n < 0 THEN 0 - n ELSE n

\* a part of an orientation string, as split(',') gives it: a decimal
\* numeral (sign and magnitude in hundredths), the empty string, a text
\* that is no numeral, the numeral Infinity, or no part at all
Dec(sign, n) == [k |-> "dec", s |-> sign, n |-> n]
EmptyPart   == [k |-> "empty", s |-> "", n |-> 0]
TextPart    == [k |-> "text", s |-> "", n |-> 0]
InfPart     == [k |-> "Infinity", s |-> "", n |-> 0]
MissingPart == [k |-> "missing", s |-> "", n |-> 0]

\* +part: the number a part converts to; `fin` is underscore's isFinite
ToNumber(part) ==
    CASE part.k = "dec" ->
           [fin |-> TRUE,
            v |-> (IF part.s = "-" THEN 0 - 1 ELSE 1) * part.n * 10]
      [] part.k = "empty" -> [fin |-> TRUE, v |-> 0]
      [] OTHER -> [fin |-> FALSE, v |-> 0]

\* x.toFixed(2) for x in thousandths: the sign is that of x, also when the
\* digits round to zero; a value halfway between two hundredths in decimal
\* is not halfway in binary and goes up or down (`up`)
toFixed2(x, up) ==
    LET a == Abs(x)
        n == IF a % 10 = 5 THEN a \div 10 + (IF up THEN 1 ELSE 0)
                           ELSE (a + 5) \div 10
    IN  Dec(IF x < 0 THEN "-" ELSE "", n)

\* Math.round(x) for x >= 0 in thousandths, as a whole number
MathRoundMilli(x) == (x + 500) \div Milli

\* the getter without the negation of the angles
orientationStringUnnegated(g, up) ==
    <<toFixed2(g.rotate[1], up[1]), toFixed2(g.rotate[2], up[2]),
      Dec("", 100 * MathRoundMilli(g.scale))>>

\* the getter, lines 140-144
orientationString(g, up) ==
    <<toFixed2(0 - g.rotate[1], up[1]), toFixed2(0 - g.rotate[2], up[2]),
      Dec("", 100 * MathRoundMilli(g.scale))>>

\* utils.clamp(x, low, high)
clamp(x, low, high) ==
    IF x < low THEN low ELSE IF x > high THEN high ELSE x

\* fit(view), lines 92-98, for the orthographic projection, whose outline
\* is a disc of radius scale: hScale = vScale = 2
fit(view) ==
    LET m == IF view[1] < view[2] THEN view[1] ELSE view[2]
    IN  (m * Milli * 9) \div (2 * 10)

\* center(view), lines 104-106
center(view) == <<(view[1] * Milli) \div 2, (view[2] * Milli) \div 2>>

\* projection.rotate(angles): d3 keeps each angle % 360
projectionRotate(angles) ==
    <<JsRem(angles[1], FullTurn), JsRem(angles[2], FullTurn), angles[3]>>

\* this.newProjection(view).rotate() of the orthographic globe
defaultRotate(offset) ==
    <<currentPosition(offset)[1] * Milli, currentPosition(offset)[2] * Milli,
      0>>

\* the setter, lines 125-138
setOrientation(g, o, view, offset) ==
    LET lambda == ToNumber(o[1])
        phi    == ToNumber(o[2])
        sc     == ToNumber(o[3])
    IN  [rotate |->
             projectionRotate(
                 IF lambda.fin /\ phi.fin
                 THEN <<0 - lambda.v, 0 - phi.v, g.rotate[3]>>
                 ELSE defaultRotate(offset)),
         scale |->
             IF sc.fin THEN clamp(sc.v, scaleExtent[1], scaleExtent[2])
                       ELSE fit(view),
         translate |-> center(view)]

\* projection.rotate()[0] and [1], as a manipulator leaves them (line 166)
LongitudesMilli ==
    ((0 - MaxMilli)..MaxMilli)
        \cup {FullTurn - m : m \in 1..MaxMilli}
        \cup {m - FullTurn : m \in 1..MaxMilli}
        \cup {123456, 0 - 90000}

LatitudesMilli == {0 - 3, 0, 45678, 4 - FullTurn}

\* projection.scale() as a manipulator or fit leaves it (line 167): values
\* about both ends of scaleExtent() and between them
ScaleSamples ==
    {scaleExtent[1] - 7000, scaleExtent[1] - 600, scaleExtent[1] - 500,
     scaleExtent[1], scaleExtent[1] + 400, 249500,
     scaleExtent[2] - 400, scaleExtent[2], scaleExtent[2] + 499,
     scaleExtent[2] + 500, scaleExtent[2] + 600000}

\* views: one the globe fits into below scaleExtent(), one within it, one
\* above it
OViews == {<<40, 40>>, <<800, 600>>, <<8000, 8000>>}

NoOrientation == <<MissingPart, MissingPart, MissingPart>>

\* orientation strings of the configuration: "0,0,150", "-30.5,45,10",
\* "10,20,5000", "10,20", "10,20,abc", "abc,20,100", "", "10,20,",
\* "400,0,100", "10,20,Infinity"
ExternalOrientations ==
    {<<Dec("", 0), Dec("", 0), Dec("", 15000)>>,
     <<Dec("-", 3050), Dec("", 4500), Dec("", 1000)>>,
     <<Dec("", 1000), Dec("", 2000), Dec("", 500000)>>,
     <<Dec("", 1000), Dec("", 2000), MissingPart>>,
     <<Dec("", 1000), Dec("", 2000), TextPart>>,
     <<TextPart, Dec("", 2000), Dec("", 10000)>>,
     <<EmptyPart, MissingPart, MissingPart>>,
     <<Dec("", 1000), Dec("", 2000), EmptyPart>>,
     <<Dec("", 40000), Dec("", 0), Dec("", 10000)>>,
     <<Dec("", 1000), Dec("", 2000), InfPart>>}

\* the orthographic projection as d3 makes it: scale 249.5, translate
\* [480, 250]
OInit ==
    /\ og = [rotate |-> defaultRotate(0), scale |-> 249500,
             translate |-> <<480 * Milli, 250 * Milli>>]
    /\ ost = [pc |-> "init", str |-> NoOrientation, view |-> <<0, 0>>,
              before |-> og]

\* a manipulator has moved the projection, lines 162-169, before the
\* orientation call
Manipulate ==
    /\ ost.pc = "init"
    /\ \E lambda \in LongitudesMilli, phi \in LatitudesMilli,
          sc \in ScaleSamples :
          og' = [og EXCEPT
                    !.rotate = projectionRotate(<<lambda, phi, og.rotate[3]>>),
                    !.scale = sc]
    /\ ost' = [pc |-> "moved", str |-> NoOrientation, view |-> <<0, 0>>,
               before |-> og']
    /\ UNCHANGED <<gvars, bvars, fvars, rvars>>

\* globe.orientation(globe.orientation(), view)
RoundTrip ==
    /\ ost.pc \in {"init", "moved"}
    /\ \E view \in OViews, up \in BOOLEAN \X BOOLEAN,
          offset \in TimezoneOffsets :
          LET o == orientationString(og, up)
          IN  /\ og' = setOrientation(og, o, view, offset)
              /\ ost' = [pc |-> "roundtrip", str |-> o, view |-> view,
                         before |-> og]
    /\ UNCHANGED <<gvars, bvars, fvars, rvars>>

\* globe.orientation(o, view) with an orientation string of the
\* configuration
SetOrientation ==
    /\ ost.pc \in {"init", "moved"}
    /\ \E o \in ExternalOrientations, view \in OViews,
          offset \in TimezoneOffsets :
          /\ og' = setOrientation(og, o, view, offset)
          /\ ost' = [pc |-> "set", str |-> o, view |-> view, before |-> og]
    /\ UNCHANGED <<gvars, bvars, fvars, rvars>>

-----------------------------------------------------------------------------
(* reorient, lines 629-640: the controller's answer to a change of the     *)
(* configuration's orientation.                                            *)

\* the view of the page the controller orients the globe in
ControllerView == <<800, 600>>

\* the options of a notification, as reorient reads them from
\* arguments[3]: the declared source of the change, "" when none is given
NotificationSources == {"moveEnd", ""}

\* configuration.get('orientation'): "60,0,10" and "0,0,10"
StoredOrientations ==
    {<<Dec("", 6000), Dec("", 0), Dec("", 1000)>>,
     <<Dec("", 0), Dec("", 0), Dec("", 1000)>>}

\* a reorient that looks at the globe only
reorientReturnsNoGlobe(globe, source) == ~globe

\* line 631: !globe || options.source === 'moveEnd'
reorientReturns(globe, source) == ~globe \/ source = "moveEnd"

\* globe.orientation(o, view) called
SetterCall(o) == [name |-> "orientation", arg |-> o, coord |-> <<>>, src |-> ""]

\* the projection of the controller's globe, in thousandths
projectionMilli ==
    [rotate |-> <<rotate[1] * Milli, rotate[2] * Milli, 0>>,
     scale |-> scale * Milli,
     translate |-> <<translate[1] * Milli, translate[2] * Milli>>]

\* reorient, run for a notification of the given source; the notifications
\* of the model arrive while no operation is in progress
Reorient ==
    /\ op = NoOp
    /\ \E source \in NotificationSources, o \in StoredOrientations :
        /\ last' = "reorient"
        /\ notice' = source
        /\ UNCHANGED <<op, precision, timer, hist, relType, sessions, opg>>
        /\ UNCHANGED <<bvars, fvars, rvars, ovars>>
        /\ IF reorientReturns(TRUE, source)
           THEN /\ emitted' = <<>>
                /\ UNCHANGED <<rotate, scale, translate, zoomK>>
           ELSE LET g == setOrientation(projectionMilli, o, ControllerView, 0)
                IN  /\ rotate' = <<g.rotate[1] \div Milli, g.rotate[2] \div Milli>>
                    /\ scale' = g.scale \div Milli
                    /\ translate' = <<g.translate[1] \div Milli,
                                      g.translate[2] \div Milli>>
                    /\ zoomK' = scale'
                    /\ emitted' = <<Event("moveStart"), SetterCall(o),
                                    Event("moveEnd")>>

-----------------------------------------------------------------------------
Init == GInit /\ BInit /\ FInit /\ RInit /\ OInit

Next == ZoomStart \/ Zoom \/ ZoomEnd \/ SignalEndFire

Spec == Init /\ [][Next]_vars

\* the quiet period of a pending signalEnd passes
SpecFair == Init /\ [][Next]_vars /\ WF_vars(SignalEndFire)

NextBounds == Bounds

SpecBounds == Init /\ [][NextBounds]_vars

NextField ==
    \/ Interpolate \/ Column \/ Resume \/ Resolve \/ Throw \/ RequestCancel
    \/ Release

SpecField == Init /\ [][NextField]_vars

\* the loop of a slice runs on, and a timeout that is pending fires
SpecFieldFair ==
    /\ Init /\ [][NextField]_vars
    /\ WF_vars(Column) /\ WF_vars(Resolve) /\ WF_vars(Resume)

NextRandomize == NextField \/ Randomize

SpecRandomize == Init /\ [][NextRandomize]_vars

NextReorient == Next \/ Reorient

SpecReorient == Init /\ [][NextReorient]_vars

NextRegistry == BuildGlobe

SpecRegistry == Init /\ [][NextRegistry]_vars

NextOrientation == Manipulate \/ RoundTrip \/ SetOrientation

SpecOrientation == Init /\ [][NextOrientation]_vars

----------------------------------------------------------------------------
(* Properties of the input controller, checked under Spec.                 *)

\* a release: zoomend has just run on an interaction whose zoom events all
\* carried the start scale
ReleasedUnscaled == last = "zoomend" /\ ~hist.scaleDiff

\* C1 as stated: an interaction whose scale never differs from the start
\* scale and whose pointer never moves MIN_MOVE px or more away from the
\* start pointer is 'spurious' at release when the pointer did not move at
\* all, and 'click' when it moved.
C1_AsStated ==
    (ReleasedUnscaled /\ ~hist.far) =>
        relType = (IF hist.moved THEN "click" ELSE "spurious")

\* C1, amended: such an interaction is 'click' at release when no zoom event
\* was handled in it; otherwise it is 'spurious' when the pointer of its
\* last zoom event equals the start pointer and 'click' when that pointer
\* differs from it (by less than MIN_MOVE px).
C1_ReleaseType ==
    (ReleasedUnscaled /\ ~hist.far) =>
        relType = (IF hist.zoomed /\ ~hist.lastMoved THEN "spurious" ELSE "click")

\* the pointer moved by less than MIN_MOVE px, came back to the start
\* pointer, and the interaction was released as 'spurious'
C1_Witness ==
    /\ ReleasedUnscaled /\ ~hist.far
    /\ hist.zoomed /\ hist.moved /\ ~hist.lastMoved
    /\ relType = "spurious"

\* C2: zoom is sticky: an operation of type 'zoom' is of type 'zoom' after
\* every further event handled while it is in progress, whatever pointer
\* and scale the event carries.
C2_ZoomSticky ==
    [][(op.type = "zoom" /\ op'.type # "null") => op'.type = "zoom"]_vars

\* a 'zoom' operation has just handled a zoom event that carried the start
\* scale again, after its pointer had moved MIN_MOVE px or more away
C2_Witness ==
    /\ op.type = "zoom" /\ last = "zoom"
    /\ scale = op.startScale /\ hist.far /\ hist.lastMoved

\* C3: an interaction whose scale always equals the start scale and in
\* which some zoom event's pointer is MIN_MOVE px or more away from the
\* start pointer is 'drag' at release, and is never of type 'zoom'.
C3_Drag ==
    /\ (ReleasedUnscaled /\ hist.far) => relType = "drag"
    /\ (op # NoOp /\ ~hist.scaleDiff) => op.type # "zoom"

\* a drag whose pointer came back to the start pointer before the release
C3_Witness ==
    /\ ReleasedUnscaled /\ hist.far /\ ~hist.lastMoved
    /\ relType = "drag"

\* C4: zoomend acts by the operation's type alone: 'click' emits exactly one
\* click event with the start pointer (and the inverse projection, or an
\* empty coordinate) and leaves the move-end timer alone; 'drag' and 'zoom'
\* emit nothing and arm the move-end timer; 'spurious' emits nothing and
\* leaves the timer alone; in every case op is null afterwards.
C4_Release ==
    [][(last' = "zoomend" /\ op # NoOp) =>
          /\ op' = NoOp
          /\ op.type = "click" =>
                /\ emitted' \in {<<ClickEvent(op.startMouse, c)>> :
                                     c \in {<<>>, op.startMouse}}
                /\ timer' = timer
          /\ op.type \in {"drag", "zoom"} => (emitted' = <<>> /\ timer')
          /\ op.type = "spurious" => (emitted' = <<>> /\ timer' = timer)]_vars

\* a click was released with an undefined inverse projection while the
\* move-end timer of an earlier drag or zoom was still pending
C4_Witness ==
    /\ last = "zoomend" /\ relType = "click" /\ timer
    /\ emitted = <<ClickEvent(<<3, 3>>, <<>>)>>

\* the callback of signalEnd has persisted the orientation and emitted
\* 'moveEnd'
Settled(em, rot, sc) ==
    em = <<SaveEvent(orientation(rot, sc), "moveEnd"), Event("moveEnd")>>

\* C5 as stated: when the quiet period expires, the orientation is persisted
\* and 'moveEnd' emitted if no operation is in progress, and nothing is
\* issued if any operation is in progress.
C5_AsStated ==
    [][(timer /\ ~timer') =>
          IF op = NoOp THEN Settled(emitted', rotate, scale)
          ELSE emitted' = <<>>]_vars

\* C5, amended: when the quiet period expires, the orientation is persisted
\* and 'moveEnd' emitted if no operation of type 'drag' or 'zoom' is in
\* progress (op is null, or of type 'click' or 'spurious'); if an operation
\* of type 'drag' or 'zoom' is in progress, nothing is issued.
C5_QuietPeriod ==
    [][(timer /\ ~timer') =>
          IF op.type \in {"null", "click", "spurious"}
          THEN Settled(emitted', rotate, scale)
          ELSE emitted' = <<>>]_vars

\* the quiet period expired while a drag was in progress: nothing issued
C5_Witness ==
    /\ last = "signalEnd" /\ op.type = "drag" /\ emitted = <<>>

----------------------------------------------------------------------------
(* Properties of clampedBounds, checked under SpecBounds.                  *)

\* the bounding box given to clampedBounds is finite and well formed
FiniteBox ==
    /\ \A i \in 1..4 : bbox[i].k = "num"
    /\ bbox[1].v <= bbox[3].v /\ bbox[2].v <= bbox[4].v

\* C6: for every view with width, height >= 1 and every (finite) bounding
\* box, also one partly or wholly outside the view, the result b of
\* bounds(view) has b.width = b.xMax - b.x + 1, b.height = b.yMax - b.y + 1,
\* 0 <= b.width <= view.width and 0 <= b.height <= view.height.
C6_BoundsWithinView ==
    (bpc = "done" /\ FiniteBox) =>
        /\ bres.width = Num(bres.xMax.v - bres.x.v + 1)
        /\ bres.height = Num(bres.yMax.v - bres.y.v + 1)
        /\ 0 <= bres.width.v /\ bres.width.v <= bview[1]
        /\ 0 <= bres.height.v /\ bres.height.v <= bview[2]

----------------------------------------------------------------------------
(* Properties of the Field, checked under SpecField and SpecRandomize.     *)

\* C7: after interpolateField completes, every pixel of the view that the
\* mask built for the run marked not visible is outside the boundary of
\* the Field, also the right, lower and diagonal neighbours of a visible
\* sample pixel.
C7_InvisibleIsOutside ==
    (fpc = "done" /\ released.n = 0) =>
        \A p \in Pixels \ visible : ~isInsideBoundary(columns, 2 * p[1], 2 * p[2])

\* C8: randomize returns a point for which isInsideBoundary is true, also
\* when no attempt found a defined point.
C8_RandomizeInside ==
    (rnd.pc = "returned" /\ released.n = 0) => rnd.inside

\* C9: randomize samples at most 30 points: it returns the first sampled
\* point that is defined, or the 30th sampled point when 30 in a row are
\* undefined, and samples no 31st.
C9_AtMost30 ==
    /\ rnd.samples <= SafetyNetLimit
    /\ rnd.pc = "returned" => (rnd.defined \/ rnd.samples = SafetyNetLimit)
    /\ rnd.pc = "loop" => ~rnd.defined

\* C10: after release(), once or more often, the lookup of any (x, y) gives
\* the outside sentinel NULL_WIND_VECTOR, so isDefined and isInsideBoundary
\* are false everywhere.
C10_ReleasedIsNull ==
    released.n > 0 =>
        \A q \in Probes :
            /\ field(columns, q[1], q[2]) = "NULL"
            /\ ~isDefined(columns, q[1], q[2])
            /\ ~isInsideBoundary(columns, q[1], q[2])

\* a Field that held a wind vector has been released twice
C10_Witness == released.n = 2 /\ released.hadWind

-----------------------------------------------------------------------------
(* Properties of buildGlobe, checked under SpecRegistry.                   *)

\* C11: a call of buildGlobe with a name the registry does not hold fails
\* with the unknown-projection error and makes no Globe; a call with a
\* registered name produces the Globe of that variant, its projection built
C11_BuildGlobe ==
    \A i \in 1..Len(built) :
        IF built[i].name \notin ProjectionNames
        THEN /\ built[i].outcome.kind = "rejected"
             /\ built[i].outcome.error = "Unknown projection"
             /\ built[i].made = NoGlobe
        ELSE /\ built[i].outcome.kind \in {"promise", "resolved"}
             /\ built[i].outcome.value.variant = built[i].name
             /\ built[i].outcome.value.projection # NoProjection

-----------------------------------------------------------------------------
(* Properties of standardGlobe.orientation, checked under SpecOrientation. *)

\* the getter's string of the projection as it is now; the angles of a
\* projection the setter has just set are whole hundredths
StringNow == orientationString(og, <<TRUE, TRUE>>)

\* the round trip left the string as it was and changed the angles by at
\* most 0.01 degrees and the scale by at most one half
RoundTripKeeps ==
    /\ StringNow = ost.str
    /\ Abs(og.rotate[1] - ost.before.rotate[1]) <= 10
    /\ Abs(og.rotate[2] - ost.before.rotate[2]) <= 10
    /\ Abs(og.scale - ost.before.scale) <= 500

\* C12 as stated: for any rotation and any scale, also a scale outside
\* scaleExtent(), orientation(orientation(), view) leaves the getter's
\* string as it was, the angles within 0.01 degrees and the scale within
\* the rounding to a whole number
C12_AsStated == ost.pc = "roundtrip" => RoundTripKeeps

\* the string the getter gave has a scale within scaleExtent() and angles
\* that are neither "-0.00" nor of magnitude 360.00
C12_Covered ==
    /\ ToNumber(ost.str[3]).v >= scaleExtent[1]
    /\ ToNumber(ost.str[3]).v <= scaleExtent[2]
    /\ \A i \in 1..2 : ost.str[i] # Dec("-", 0) /\ ost.str[i].n < 36000

\* C12, amended: when the scale rounds to a whole number within
\* scaleExtent() and neither angle prints as "-0.00" or with magnitude
\* 360.00, orientation(orientation(), view) leaves the getter's string as
\* it was, the angles within 0.01 degrees and the scale within the rounding
\* to a whole number
C12_RoundTrip == ost.pc = "roundtrip" /\ C12_Covered => RoundTripKeeps

\* a round trip that rounded both angles and the scale
C12_Witness ==
    /\ ost.pc = "roundtrip"
    /\ C12_Covered
    /\ og.rotate[1] # ost.before.rotate[1]
    /\ og.rotate[2] # ost.before.rotate[2]
    /\ og.scale # ost.before.scale
    /\ StringNow = ost.str

\* C18: after the setter has run the scale of the projection lies within
\* scaleExtent(), also when the scale part of the string is missing or no
\* number and the fit-to-view scale is used
C18_ScaleWithinExtent ==
    ost.pc \in {"set", "roundtrip"} =>
        og.scale >= scaleExtent[1] /\ og.scale <= scaleExtent[2]

-----------------------------------------------------------------------------
(* Properties of the interpolation run, checked under SpecField.           *)

\* C13: once cancellation is requested the run schedules no further slice,
\* does not resolve with a Field and does not reject
C13_CancelStops ==
    [][cancel =>
          /\ fpc' = "sleeping" => fpc = "sleeping"
          /\ fpc' = "done" => fpc = "done"
          /\ fpc' = "rejected" => fpc = "rejected"]_vars

-----------------------------------------------------------------------------
(* Manipulator sessions and the projection precision, checked under Spec.  *)

\* C14: whatever the order of zoomstart, zoom and zoomend events, at most
\* one manipulator session is open at any moment, and one is open exactly
\* while an operation is in progress
C14_OneSession ==
    /\ sessions \in {0, 1}
    /\ sessions = 1 <=> op # NoOp

\* a zoom event has arrived at an operation that was in progress before it,
\* and the session is the one made when the operation began
C14_Witness ==
    /\ last = "zoom"
    /\ op.type = "drag"
    /\ hist.far /\ ~hist.lastMoved
    /\ sessions = 1

\* C17: the precision of the projection is ten times its value of before
\* the session exactly while a manipulator session is open, and its
\* initial value whenever no operation is in progress
C17_Precision ==
    /\ sessions >= 1 <=> precision = DefaultPrecision * 10
    /\ op = NoOp => precision = DefaultPrecision
    /\ op # NoOp => op.original = DefaultPrecision

\* a drag has been released and the precision is the initial one again
C17_Witness ==
    /\ last = "zoomend"
    /\ relType = "drag"
    /\ op = NoOp
    /\ precision = DefaultPrecision

-----------------------------------------------------------------------------
(* Progress of the interpolation run, checked under SpecFieldFair.         *)

Running == fpc \in {"slice", "sleeping"}

\* a run in which no column throws resolves; one in which a column throws
\* rejects
Finishes == Running ~> fpc \in {"done", "rejected"}

\* a slice yields only after it has interpolated a column
YieldsAfterColumn ==
    [][fpc' = "sleeping" /\ fpc # "sleeping" => Len(trace') = Len(trace) + 1]_vars

\* with bounds.x >= bounds.xMax the first slice resolves at once
EmptyResolvesAtOnce ==
    [](fpc # "idle" /\ columnCount(fbounds) = 0 =>
          fpc \in {"slice", "done"} /\ slices = 1 /\ trace = <<>>)

\* C15 as stated: every run in which no column throws resolves, at once
\* when bounds.x >= bounds.xMax; a slice interpolates a column before it
\* may yield, and the run needs at most ceil((xMax - x) / 2) slices
C15_AsStated ==
    /\ Finishes
    /\ YieldsAfterColumn
    /\ EmptyResolvesAtOnce
    /\ [](columnCount(fbounds) > 0 => slices <= columnCount(fbounds))

\* C15, amended: every run in which no column throws resolves, at once
\* when bounds.x >= bounds.xMax; a slice interpolates a column before it
\* may yield, and the run needs at most ceil((xMax - x) / 2) + 1 slices,
\* the last of which may find no column left
C15_Resolves ==
    /\ Finishes
    /\ YieldsAfterColumn
    /\ EmptyResolvesAtOnce
    /\ [](slices <= columnCount(fbounds) + 1)

\* a run of two columns or more that yielded after each of them, the last
\* one included, and resolved in the slice after
C15_Witness ==
    /\ fpc = "done"
    /\ columnCount(fbounds) >= 2
    /\ slices = columnCount(fbounds) + 1

\* C16: the columns given to interpolateColumn are bounds.x, bounds.x + 2,
\* ... below bounds.xMax, each once and in increasing order, however the
\* run is cut into slices
C16_ColumnsInOrder ==
    /\ Len(trace) <= columnCount(fbounds)
    /\ \A i \in 1..Len(trace) : trace[i] = fbounds.x + 2 * (i - 1)
    /\ fpc = "done" => Len(trace) = columnCount(fbounds)

\* a run of two columns or more, cut into slices, has resolved
C16_Witness ==
    /\ fpc = "done"
    /\ slices >= 2
    /\ Len(trace) >= 2
    /\ Len(trace) = columnCount(fbounds)

-----------------------------------------------------------------------------
(* The fallbacks of clampedBounds, checked under SpecBounds.               *)

\* the four corner values clampedBounds returned are finite numbers
C19_Finite ==
    bres.x.k = "num" /\ bres.y.k = "num" /\ bres.xMax.k = "num" /\ bres.yMax.k = "num"

-----------------------------------------------------------------------------
(* Properties of reorient, checked under SpecReorient.                     *)

\* the projection is what the setter makes of the orientation string o:
\* the rotation the negated angles, the scale within scaleExtent(), the
\* translate the centre of the view
OrientedTo(o, rot, sc, tr) ==
    /\ rot[1] * Milli = JsRem(0 - ToNumber(o[1]).v, FullTurn)
    /\ rot[2] * Milli = JsRem(0 - ToNumber(o[2]).v, FullTurn)
    /\ sc * Milli = clamp(ToNumber(o[3]).v, scaleExtent[1], scaleExtent[2])
    /\ 2 * tr[1] = ControllerView[1] /\ 2 * tr[2] = ControllerView[2]

-----------------------------------------------------------------------------
(* More properties of the gesture controller, checked under Spec.          *)

\* C21: a zoom event that leaves the operation 'zoom' keeps the rotation,
\* wherever the pointer is, and sets the scale to the event's scale; from
\* then on, and at the release, the rotation is the one the globe had when
\* the operation became 'zoom'
C21_ZoomKeepsRotation ==
    [][/\ (last' = "zoom" /\ op'.type = "zoom") =>
              /\ rotate' = rotate
              /\ scale' = opg'.evScale
              /\ rotate' = opg'.zoomRotate
       /\ (last' = "zoomend" /\ relType' = "zoom") =>
              /\ rotate' = opg'.zoomRotate
              /\ rotate' = rotate]_vars

\* a drag has turned the globe, a later event of the same operation changed
\* the scale with the pointer away from where the drag left it, and the
\* operation was released as 'zoom' with the rotation the drag had left
C21_Witness ==
    /\ last = "zoomend"
    /\ relType = "zoom"
    /\ hist.far /\ hist.lastMoved
    /\ rotate # <<0, 0>>
    /\ rotate = opg.zoomRotate

\* the number of events called name in the sequence em
CountOf(em, name) == Cardinality({i \in 1..Len(em) : em[i].name = name})

\* the operation an event finds is still 'click' or 'spurious' (a new one
\* is made 'click')
Slack(o) == o = NoOp \/ o.type \in {"click", "spurious"}

\* C23: a zoom event that leaves the operation 'click' or 'spurious' emits
\* nothing, and the operation has emitted no 'moveStart' yet; any other
\* zoom event emits one 'move', preceded in the same event by 'moveStart'
\* exactly when the event found the operation 'click' or 'spurious', so
\* that the operation has then emitted exactly one 'moveStart'
C23_OneMoveStart ==
    [][last' = "zoom" =>
          IF Slack(op')
          THEN /\ emitted' = <<>>
               /\ opg'.starts = 0 /\ opg'.moves = 0
          ELSE /\ emitted' = (IF Slack(op) THEN <<Event("moveStart")>> ELSE <<>>)
                                \o <<Event("move")>>
               /\ CountOf(emitted', "move") = 1
               /\ opg'.starts = 1 /\ opg'.moves = 1]_vars

\* a later event of an operation that has left 'click' emits 'move' alone,
\* the one 'moveStart' of the operation having been emitted before
C23_Witness ==
    /\ last = "zoom"
    /\ op # NoOp /\ op.type = "drag"
    /\ emitted = <<Event("move")>>
    /\ opg.starts = 1

\* from some point on no operation is 'drag' or 'zoom'
NoMoveInTheEnd == <>[](op.type \notin {"drag", "zoom"})

\* a drag or a zoom has just been released
MoveReleased == last = "zoomend" /\ relType \in {"drag", "zoom"}

\* the callback of signalEnd has just run and held back, a drag or a zoom
\* being in progress
HeldBack == last = "signalEnd" /\ emitted = <<>> /\ op.type \in {"drag", "zoom"}

\* the callback of signalEnd has just run, persisted the orientation and
\* emitted 'moveEnd'
SettledNow == last = "signalEnd" /\ Settled(emitted, rotate, scale)

\* C24, checked under SpecFair: if from some point on no operation is
\* 'drag' or 'zoom', every release of a drag or a zoom is followed by a
\* firing that persists the orientation and emits 'moveEnd', and every
\* firing held back by a drag or zoom in progress is followed by the
\* release of that operation with the timer pending again
C24_MoveEnds ==
    NoMoveInTheEnd =>
        /\ [](MoveReleased => <>SettledNow)
        /\ [](HeldBack => <>(MoveReleased /\ timer))

\* a firing was held back by a drag in progress, the drag was released and
\* the firing its release scheduled has persisted the orientation
C24_Witness ==
    /\ SettledNow
    /\ op = NoOp /\ relType = "drag"
    /\ opg.held

-----------------------------------------------------------------------------
(* A further property of the Mask, checked under SpecField.                *)

\* C22: during an interpolation run the buffer entry of every pixel of the
\* view that the mask marked not visible when it was built stays
\* transparent (no mask.set call reaches it)
C22_InvisibleStaysTransparent ==
    fpc # "idle" => \A p \in Pixels \ visible : alpha[maskIndex(p[1], p[2])] = 0

====
